---- MODULE Spec2Model ----
(***************************************************************************)
(* Audio ingestion and normalization pipeline of rust-node-stt.            *)
(*                                                                         *)
(* Two programs are modelled:                                              *)
(*   prog = "repair" : src/src/main.rs      (ffmpeg repair, then decode)   *)
(*   prog = "plain"  : src/ruststt/src/main.rs  (direct open, then decode) *)
(*                                                                         *)
(* f32 values are represented exactly as integer numerators over FUnit:    *)
(* the f32 value v is the integer v * FUnit.  Every value the model draws  *)
(* or computes is a dyadic rational of small magnitude, for which the f32  *)
(* operations used by the code (i16 -> f32, / 32768.0, +, / 2.0) are       *)
(* exact, so the integer arithmetic below is the f32 arithmetic.           *)
(***************************************************************************)
EXTENDS Integers, Sequences, FiniteSets, TLC

VARIABLES
    prog,          \* which program runs
    pc,            \* position of main
    input,         \* file at the input path: [content, readable]
    inputAtStart,  \* the input file as it was before the run
    temp,          \* file at the temporary path
    tempAtStart,   \* the temporary path before the run
    remuxReadable, \* whether what ffmpeg writes can be opened by the reader
    toolStatus,    \* outcome of Command::output()
    ffmpegCalls,   \* number of Command::output() calls
    renames,       \* number of successful fs::rename calls
    opens,         \* number of WavReader::open calls
    bits,          \* spec.bits_per_sample of the audio stream
    channels,      \* spec.channels
    rate,          \* spec.sample_rate
    warned,        \* the sample-rate warning was printed
    raw,           \* samples yielded by reader.samples()
    audio_data,    \* the Vec<f32> handed to the engine
    produced,      \* audio_data has been bound
    engineInvoked, \* the whisper engine has been called
    segments,      \* transcript segments were printed
    err,           \* the error main returned (or panicked with)
    log            \* stages that completed successfully, in order

vars == << prog, pc, input, inputAtStart, temp, tempAtStart, remuxReadable,
           toolStatus, ffmpegCalls, renames, opens, bits, channels, rate,
           warned, raw, audio_data, produced, engineInvoked, segments, err,
           log >>

(***************************************************************************)
(* Bounds and domains                                                      *)
(***************************************************************************)
MaxLen == 4
MaxChannels == 3

I16Scale == 32768
ExpectedRate == 16000
FUnit == 4 * I16Scale

Progs == {"repair", "plain"}
BitDepths == {8, 16, 24, 32}
ChannelCounts == 1..MaxChannels
SampleRates == {ExpectedRate, 44100}

\* i16 sample values: both extremes, zero and the two half-scale values
I16Samples == {-32768, -16384, 0, 16384, 32767}
\* f32 sample values -1.0, 0.0, 0.5, 1.0 (numerators over FUnit)
F32Samples == {-FUnit, 0, FUnit \div 2, FUnit}

SeqsUpTo(S, n) == UNION {[1..k -> S] : k \in 0..n}

\* what reader.samples::<T>() can yield for the bit depth being decoded
RawSamples(b) ==
    IF b = 16 THEN SeqsUpTo(I16Samples, MaxLen)
    ELSE IF b = 32 THEN SeqsUpTo(F32Samples, MaxLen)
    ELSE {<< >>}

(***************************************************************************)
(* Sample conversion (pure)                                                *)
(***************************************************************************)
\* sample as f32 / 32768.0, as a numerator over FUnit
\* (faulty variant: divides by 16384.0)
I16ToF32Double(sample) == sample * (FUnit \div (I16Scale \div 2))
I16ToF32(sample) == sample * (FUnit \div I16Scale)

\* (left + right) / 2.0
\* (faulty variant: the sum is not halved)
MeanNoHalve(left, right) == left + right
Mean(left, right) == (left + right) \div 2

\* slice::chunks_exact(n): full chunks only, the remainder is dropped
RECURSIVE ChunksExact(_, _)
ChunksExact(s, n) ==
    IF Len(s) < n THEN << >>
    ELSE << SubSeq(s, 1, n) >> \o ChunksExact(SubSeq(s, n + 1, Len(s)), n)

\* |chunk| { left = chunk[0] as f32 / 32768.0; right = ...; (left + right) / 2.0 }
Stereo16(chunk) == Mean(I16ToF32(chunk[1]), I16ToF32(chunk[2]))
\* |chunk| (chunk[0] + chunk[1]) / 2.0
Stereo32(chunk) == Mean(chunk[1], chunk[2])

\* samples.chunks_exact(2).map(..).collect()
DownmixI16(samples) ==
    LET chunks == ChunksExact(samples, 2)
    IN  [i \in 1..Len(chunks) |-> Stereo16(chunks[i])]
DownmixF32(samples) ==
    LET chunks == ChunksExact(samples, 2)
    IN  [i \in 1..Len(chunks) |-> Stereo32(chunks[i])]
\* reader.samples::<i16>().map(|s| s.map(|sample| sample as f32 / 32768.0))
MonoI16(samples) == [i \in 1..Len(samples) |-> I16ToF32(samples[i])]
\* reader.samples::<f32>().collect()
MonoF32(samples) == samples

\* the match on spec.bits_per_sample: the buffer, or the error
\* (faulty variant: the default arm passes the samples through)
SamplesToMonoPassThrough(b, ch, samples) ==
    IF b = 16 THEN
        [ok |-> TRUE,
         data |-> IF ch = 2 THEN DownmixI16(samples)
                  ELSE MonoI16(samples)]
    ELSE IF b = 32 THEN
        [ok |-> TRUE,
         data |-> IF ch = 2 THEN DownmixF32(samples)
                  ELSE MonoF32(samples)]
    ELSE [ok |-> TRUE, data |-> samples]
SamplesToMono(b, ch, samples) ==
    IF b = 16 THEN
        [ok |-> TRUE,
         data |-> IF ch = 2 THEN DownmixI16(samples)
                  ELSE MonoI16(samples)]
    ELSE IF b = 32 THEN
        [ok |-> TRUE,
         data |-> IF ch = 2 THEN DownmixF32(samples)
                  ELSE MonoF32(samples)]
    ELSE [ok |-> FALSE, data |-> << >>]

\* spec.sample_rate != 16000
\* (faulty variant: the warning is never printed)
RateMismatchNever(r) == FALSE
RateMismatch(r) == r # ExpectedRate

(***************************************************************************)
(* Initial state                                                           *)
(***************************************************************************)
Init ==
    /\ prog \in Progs
    /\ pc = "start"
    /\ input \in [content : {"original"}, readable : BOOLEAN]
    /\ inputAtStart = input
    /\ temp \in {"none", "stale"}
    /\ tempAtStart = temp
    /\ (prog = "plain" => temp = "none")
    /\ remuxReadable = FALSE
    /\ toolStatus = "none"
    /\ ffmpegCalls = 0
    /\ renames = 0
    /\ opens = 0
    /\ bits \in BitDepths
    /\ channels \in ChannelCounts
    /\ rate \in SampleRates
    /\ warned = FALSE
    /\ raw = << >>
    /\ audio_data = << >>
    /\ produced = FALSE
    /\ engineInvoked = FALSE
    /\ segments = FALSE
    /\ err = "none"
    /\ log = << >>

Fail(e) == pc' = "error" /\ err' = e

(***************************************************************************)
(* src/src/main.rs: fix_and_open_wav_inplace                               *)
(***************************************************************************)
RepairFrame == UNCHANGED << prog, inputAtStart, tempAtStart, bits, channels,
                            rate, warned, raw, audio_data, produced,
                            engineInvoked, segments >>

\* Command::new("ffmpeg")...output()? : the process cannot be launched
FfmpegSpawnFails ==
    /\ prog = "repair" /\ pc = "start"
    /\ ffmpegCalls' = ffmpegCalls + 1
    /\ toolStatus' = "unavailable"
    /\ Fail("RepairToolUnavailable")
    /\ UNCHANGED << input, temp, remuxReadable, renames, opens, log >>
    /\ RepairFrame

\* ffmpeg ran and exited non-zero; the destination is whatever it left behind
FfmpegExitsNonZero ==
    /\ prog = "repair" /\ pc = "start"
    /\ ffmpegCalls' = ffmpegCalls + 1
    /\ toolStatus' = "failure"
    /\ temp' \in {temp, "partial"}
    /\ pc' = "status"
    /\ UNCHANGED << input, remuxReadable, renames, opens, err, log >>
    /\ RepairFrame

\* ffmpeg ran and exited zero; -y overwrote the destination with the remux
FfmpegExitsZero ==
    /\ prog = "repair" /\ pc = "start"
    /\ ffmpegCalls' = ffmpegCalls + 1
    /\ toolStatus' = "success"
    /\ temp' = "remuxed"
    /\ remuxReadable' \in BOOLEAN
    /\ pc' = "status"
    /\ UNCHANGED << input, renames, opens, err, log >>
    /\ RepairFrame

\* if !output.status.success() { let _ = fs::remove_file(&temp_path); Err }
\* The result of remove_file is discarded: when the removal fails (the path
\* holds something that cannot be removed) the file stays and the error is
\* returned all the same.
DiscardTemp ==
    /\ prog = "repair" /\ pc = "status" /\ toolStatus # "success"
    /\ temp' \in {"none", temp}
    /\ Fail("RepairToolFailed")
    /\ UNCHANGED << input, remuxReadable, toolStatus, ffmpegCalls, renames,
                    opens, log >>
    /\ RepairFrame

\* fs::rename(&temp_path, path_str)? succeeded
ReplaceOriginal ==
    /\ prog = "repair" /\ pc = "status" /\ toolStatus = "success"
    /\ input' = [content |-> temp, readable |-> remuxReadable]
    /\ temp' = "none"
    /\ renames' = renames + 1
    /\ pc' = "reopen"
    /\ log' = Append(log, "repair")
    /\ UNCHANGED << remuxReadable, toolStatus, ffmpegCalls, opens, err >>
    /\ RepairFrame

\* fs::rename(&temp_path, path_str)? returned an I/O error
ReplaceFails ==
    /\ prog = "repair" /\ pc = "status" /\ toolStatus = "success"
    /\ Fail("Io")
    /\ UNCHANGED << input, temp, remuxReadable, toolStatus, ffmpegCalls,
                    renames, opens, log >>
    /\ RepairFrame

\* hound::WavReader::open(path_str) on the replaced file: Ok
ReopenOk ==
    /\ prog = "repair" /\ pc = "reopen" /\ input.readable
    /\ opens' = opens + 1
    /\ pc' = "rate"
    /\ log' = Append(log, "read")
    /\ UNCHANGED << input, temp, remuxReadable, toolStatus, ffmpegCalls,
                    renames, err >>
    /\ RepairFrame

\* hound::WavReader::open(path_str) on the replaced file: Err
\* (faulty variant: a failed open goes back to the repair)
ReopenFailsRetries ==
    /\ prog = "repair" /\ pc = "reopen" /\ ~input.readable
    /\ opens' = opens + 1
    /\ pc' = "start"
    /\ UNCHANGED << input, temp, remuxReadable, toolStatus, ffmpegCalls,
                    renames, err, log >>
    /\ RepairFrame
ReopenFails ==
    /\ prog = "repair" /\ pc = "reopen" /\ ~input.readable
    /\ opens' = opens + 1
    /\ Fail("StillUnreadableAfterRepair")
    /\ UNCHANGED << input, temp, remuxReadable, toolStatus, ffmpegCalls,
                    renames, log >>
    /\ RepairFrame

(***************************************************************************)
(* src/ruststt/src/main.rs: the direct open                                *)
(***************************************************************************)
\* hound::WavReader::open("fixed_audio.wav")? : Ok
OpenOk ==
    /\ prog = "plain" /\ pc = "start" /\ input.readable
    /\ opens' = opens + 1
    /\ pc' = "rate"
    /\ log' = Append(log, "read")
    /\ UNCHANGED << input, temp, remuxReadable, toolStatus, ffmpegCalls,
                    renames, err >>
    /\ RepairFrame

\* hound::WavReader::open("fixed_audio.wav")? : Err
OpenFails ==
    /\ prog = "plain" /\ pc = "start" /\ ~input.readable
    /\ opens' = opens + 1
    /\ Fail("Unreadable")
    /\ UNCHANGED << input, temp, remuxReadable, toolStatus, ffmpegCalls,
                    renames, log >>
    /\ RepairFrame

(***************************************************************************)
(* Both programs: the rest of main                                         *)
(***************************************************************************)
FileFrame == UNCHANGED << prog, input, inputAtStart, temp, tempAtStart,
                          remuxReadable, toolStatus, ffmpegCalls, renames,
                          opens, bits, channels, rate >>

\* if spec.sample_rate != 16000 { eprintln!("Warning: ...") }
CheckSampleRate ==
    /\ pc = "rate"
    /\ warned' = RateMismatch(rate)
    /\ pc' = "normalize"
    /\ UNCHANGED << raw, audio_data, produced, engineInvoked, segments, err,
                    log >>
    /\ FileFrame

\* let audio_data: Vec<f32> = match spec.bits_per_sample { 16 | 32 => ... }
Normalize ==
    /\ pc = "normalize"
    /\ \E samples \in RawSamples(bits) :
         LET r == SamplesToMono(bits, channels, samples) IN
           /\ r.ok
           /\ raw' = samples
           /\ audio_data' = r.data
    /\ produced' = TRUE
    /\ pc' = "model"
    /\ log' = Append(log, "normalize")
    /\ UNCHANGED << warned, engineInvoked, segments, err >>
    /\ FileFrame

\* reader.samples::<T>() yielded an Err, propagated by collect()?
\* (faulty variant: a decode error does not return)
DecodeFailsContinues ==
    /\ pc = "normalize"
    /\ SamplesToMono(bits, channels, << >>).ok
    /\ err' = "Decode"
    /\ pc' = "model"
    /\ UNCHANGED << warned, raw, audio_data, produced, engineInvoked,
                    segments, log >>
    /\ FileFrame
DecodeFails ==
    /\ pc = "normalize"
    /\ SamplesToMono(bits, channels, << >>).ok
    /\ Fail("Decode")
    /\ UNCHANGED << warned, raw, audio_data, produced, engineInvoked,
                    segments, log >>
    /\ FileFrame

\* _ => return Err(format!("Unsupported bit depth: {}", ...))
UnsupportedBitDepth ==
    /\ pc = "normalize"
    /\ ~SamplesToMono(bits, channels, << >>).ok
    /\ Fail("UnsupportedBitDepth")
    /\ UNCHANGED << warned, raw, audio_data, produced, engineInvoked,
                    segments, log >>
    /\ FileFrame

\* WhisperContext::new_with_params(..).expect(..); create_state().expect(..)
LoadModelOk ==
    /\ pc = "model"
    /\ engineInvoked' = TRUE
    /\ pc' = "full"
    /\ UNCHANGED << warned, raw, audio_data, produced, segments, err, log >>
    /\ FileFrame

LoadModelFails ==
    /\ pc = "model"
    /\ engineInvoked' = TRUE
    /\ Fail("Engine")
    /\ UNCHANGED << warned, raw, audio_data, produced, segments, log >>
    /\ FileFrame

\* state.full(params, &audio_data).expect("failed to run model")
TranscribeOk ==
    /\ pc = "full"
    /\ pc' = "report"
    /\ log' = Append(log, "engine")
    /\ UNCHANGED << warned, raw, audio_data, produced, engineInvoked,
                    segments, err >>
    /\ FileFrame

TranscribeFails ==
    /\ pc = "full"
    /\ Fail("Engine")
    /\ UNCHANGED << warned, raw, audio_data, produced, engineInvoked,
                    segments, log >>
    /\ FileFrame

\* for segment in state.as_iter() { println!(..) }; Ok(())
Report ==
    /\ pc = "report"
    /\ segments' = TRUE
    /\ pc' = "done"
    /\ log' = Append(log, "report")
    /\ UNCHANGED << warned, raw, audio_data, produced, engineInvoked, err >>
    /\ FileFrame

Next ==
    \/ FfmpegSpawnFails
    \/ FfmpegExitsNonZero
    \/ FfmpegExitsZero
    \/ DiscardTemp
    \/ ReplaceOriginal
    \/ ReplaceFails
    \/ ReopenOk
    \/ ReopenFails
    \/ OpenOk
    \/ OpenFails
    \/ CheckSampleRate
    \/ Normalize
    \/ DecodeFails
    \/ UnsupportedBitDepth
    \/ LoadModelOk
    \/ LoadModelFails
    \/ TranscribeOk
    \/ TranscribeFails
    \/ Report

Spec == Init /\ [][Next]_vars

Halted == pc \in {"done", "error"}

(***************************************************************************)
(* Properties                                                              *)
(***************************************************************************)
Contains(s, x) == \E i \in 1..Len(s) : s[i] = x
IsPrefix(s, t) == Len(s) <= Len(t) /\ SubSeq(t, 1, Len(s)) = s

\* the f32 values 0.5 and 1.0
Half == FUnit \div 2
One == FUnit

\* the conversion table of the specification, entry i of the output
TableEntry(b, ch, s, i) ==
    IF b = 16 /\ ch = 1 THEN s[i] * (FUnit \div 32768)
    ELSE IF b = 16 /\ ch = 2
        THEN ((s[2 * i - 1] * (FUnit \div 32768))
              + (s[2 * i] * (FUnit \div 32768))) \div 2
    ELSE IF b = 32 /\ ch = 1 THEN s[i]
    ELSE (s[2 * i - 1] + s[2 * i]) \div 2

TableBuffer(b, ch, s) == [i \in 1..(Len(s) \div ch) |-> TableEntry(b, ch, s, i)]

Supported == bits \in {16, 32} /\ channels \in {1, 2}

\* C1: when the input file can be opened as it is, ffmpeg is never invoked
\* and the input file is never renamed over or modified.
C1_NoRepairWhenOpenable ==
    inputAtStart.readable =>
        (ffmpegCalls = 0 /\ renames = 0 /\ input = inputAtStart)

\* C2: the input file changes only by one rename of the temporary file over
\* it, taken after ffmpeg exited with status 0; when ffmpeg reports failure
\* the run ends with the input file unchanged and no temporary file.
C2_AtomicRepair ==
    /\ (input # inputAtStart =>
           /\ toolStatus = "success"
           /\ renames = 1
           /\ input.content = "remuxed"
           /\ temp = "none")
    /\ (renames > 0 => toolStatus = "success")
    /\ ((toolStatus = "failure" /\ Halted) =>
           (input = inputAtStart /\ temp = "none"))

\* C3: the repairing program run on an unreadable file invokes ffmpeg
\* exactly once; after a successful replace the file is opened exactly once;
\* a failure of that open ends the run with no further ffmpeg invocation.
C3_RetryOnce ==
    /\ ffmpegCalls <= 1 /\ renames <= 1 /\ opens <= 1
    /\ (prog = "repair" /\ ~inputAtStart.readable /\ pc # "start")
          => ffmpegCalls = 1
    /\ (renames = 1 /\ Halted) => opens = 1
    /\ (opens = 1 /\ prog = "repair") => renames = 1
    /\ err = "StillUnreadableAfterRepair"
          => (Halted /\ ffmpegCalls = 1 /\ opens = 1 /\ ~produced)

C3_Witness ==
    /\ ~inputAtStart.readable
    /\ err = "StillUnreadableAfterRepair"
    /\ ffmpegCalls = 1 /\ renames = 1 /\ opens = 1

\* C4: whenever a buffer is produced its length is
\* floor(length(raw samples) / channel count).
C4_LengthInvariant ==
    produced => Len(audio_data) = Len(raw) \div channels

\* C5: for bit depth 16 or 32 and a channel count outside {1, 2} no buffer
\* is produced and the engine is never invoked.
C5_ChannelCountRejected ==
    (bits \in {16, 32} /\ channels \notin {1, 2}) =>
        (~produced /\ ~engineInvoked)

\* C6: for a bit depth outside {16, 32}, whatever the channel count, the
\* decode stage ends with the unsupported-bit-depth error; no buffer is
\* produced and the engine is never invoked.
C6_UnsupportedBitDepth ==
    bits \notin {16, 32} =>
        /\ ~produced
        /\ ~engineInvoked
        /\ raw = << >> /\ audio_data = << >>
        /\ (Contains(log, "read") /\ pc \notin {"rate", "normalize"})
              => (pc = "error" /\ err = "UnsupportedBitDepth")

C6_Witness ==
    /\ bits = 24 /\ channels = 2
    /\ pc = "error" /\ err = "UnsupportedBitDepth" /\ ~produced

\* C7: for every supported (bit depth, channel count) the produced buffer is
\* the conversion table applied frame by frame, in input order; with the
\* examples of the specification.
C7_ConversionTable ==
    (produced /\ Supported) =>
        /\ audio_data = TableBuffer(bits, channels, raw)
        /\ (bits = 16 /\ channels = 1 /\ raw = << 16384, -16384 >>)
              => audio_data = << Half, -Half >>
        /\ (bits = 16 /\ channels = 2 /\ raw = << 16384, 16384, -32768, 0 >>)
              => audio_data = << Half, -Half >>
        /\ (bits = 32 /\ channels = 2 /\ raw = << One, -One, Half, Half >>)
              => audio_data = << 0, Half >>

C7_Witness ==
    /\ produced /\ bits = 16 /\ channels = 2
    /\ raw = << 16384, 16384, -32768, 0 >>
    /\ audio_data = << Half, -Half >>

\* C8: with a sample rate other than 16000 and a supported format the rate
\* check only warns: no error comes from it, and the buffer is the one the
\* same samples give at 16000 Hz (the table's, which does not read the rate).
C8_RateMismatchNotFatal ==
    (rate # ExpectedRate /\ Supported /\ Contains(log, "read")
       /\ pc # "rate") =>
        /\ warned
        /\ err \in {"none", "Decode", "Engine"}
        /\ pc \in {"model", "full", "report", "done"} => produced
        /\ produced => audio_data = TableBuffer(bits, channels, raw)

C8_Witness ==
    /\ rate = 44100 /\ warned /\ produced /\ engineInvoked
    /\ bits = 16 /\ channels = 1 /\ Len(audio_data) = 3
    /\ pc = "done"

\* C9: every value of a buffer produced from 16-bit samples lies in
\* [-1.0, 1.0], the extremes -32768 and 32767 included.
C9_Range16 ==
    (produced /\ bits = 16) =>
        \A i \in 1..Len(audio_data) :
            -One <= audio_data[i] /\ audio_data[i] <= One

C9_Witness ==
    /\ produced /\ bits = 16 /\ channels = 2
    /\ raw = << -32768, -32768, 32767, 32767 >>
    /\ audio_data[1] = -One

\* C10: the stages complete in the order read (after repair), normalize,
\* engine, report; the engine is invoked only after read and normalize have
\* completed; after an error no later stage runs and no segment is printed.
StageOrder == << "read", "normalize", "engine", "report" >>

C10_StageOrdering ==
    /\ [](/\ IsPrefix(IF log # << >> /\ log[1] = "repair"
                      THEN Tail(log) ELSE log, StageOrder)
          /\ engineInvoked =>
                (produced /\ Contains(log, "read")
                          /\ Contains(log, "normalize"))
          /\ produced => Contains(log, "read")
          /\ err # "none" => (pc = "error" /\ ~segments)
          /\ segments =>
                (Contains(log, "engine") /\ Contains(log, "normalize")))
    /\ [][pc = "error" => (pc' = "error" /\ log' = log
                            /\ engineInvoked' = engineInvoked
                            /\ segments' = segments)]_vars

C10_Witness ==
    /\ prog = "repair" /\ pc = "error" /\ err = "Decode"
    /\ log = << "repair", "read" >>
    /\ ~produced /\ ~engineInvoked /\ ~segments

====
